---------------------------- MODULE Spec2Model ----------------------------
(***************************************************************************)
(* Session coordination of LSP-copilot (plugin/client.py): the account     *)
(* status gate, the inline completion request lifecycle of                 *)
(* CopilotPlugin.request_get_completions / _request_completions /          *)
(* _on_get_completions, the panel completion notifications, the           *)
(* conversation $/progress notifications, the conversation/context request *)
(* and the installation of the language server (plugin/client.py and       *)
(* plugin/version_manager.py).                                             *)
(*                                                                         *)
(* ViewCompletionManager, ViewPanelCompletionManager,                      *)
(* WindowConversationManager (plugin/ui.py) and debounce (plugin/utils.py) *)
(* are used by client.py; what they do is taken from the design document   *)
(* of the plugin (its sections 4.2 to 4.4 and 5).                          *)
(***************************************************************************)
EXTENDS Integers, Sequences, FiniteSets, TLC

(***************************************************************************)
(* Bounds of the model.                                                    *)
(***************************************************************************)
\* cycling requests of one view that may await their response at once
MaxInflight == 2
\* checkStatus requests that may await their reply at once
MaxChecks == 1
\* panelSolution notifications handled for one panel session
MaxItems == 2
\* reply turns appended to one conversation
MaxTurns == 2

(***************************************************************************)
(* Optional values: Python's None and a present value.                     *)
(***************************************************************************)
None == <<>>
Some(x) == <<x>>

\* the editable surfaces completions are requested for
Views == {"v1", "v2"}
\* Region.to_tuple(): (a, b)
Regions == {<<0, 0>>, <<0, 1>>}
\* view.sel(): one region, or several
Selections == {<<r>> : r \in Regions} \cup {<< <<0, 0>>, <<0, 1>> >>}
\* what _guard_view looks at: at most one of the rejecting conditions is set
ViewModes == {"ok", "invalid", "element", "read_only", "command_mode", "is_widget"}
\* payload["completions"] of a getCompletionsCycling response
Payloads == {<<>>, <<"a">>, <<"b", "a">>}
\* result["status"] of a checkStatus reply
Statuses == {"OK", "NotAuthorized", "NotSignedIn", "MaybeOk"}
Users == {"octocat", "monalisa"}
OptBool == {None, Some(TRUE), Some(FALSE)}
OptUser == {None} \cup {Some(u) : u \in Users}

\* the views a completion panel may be opened for
PanelViews == {"v1", "v2"}
NoView == "no view"
\* the panelId a view sends with getPanelCompletions; "p9" is the id of no view
PanelIdOf(v) == IF v = "v1" THEN "p1" ELSE "p2"
PanelIds == {"p1", "p2", "p9"}
\* the CompletionItem a panelSolution notification carries
Items == {"A", "B"}

\* the windows a conversation may run in
Windows == {"w1", "w2"}
NoWindow == "no window"
CHAT_PREFIX == "copilot_chat://"
\* a progress token: a string, made of a prefix and an id, or an integer. The
\* token of a conversation is the chat prefix followed by the id of its window;
\* "w9" is the id of no window.
TokenOf(w) == <<CHAT_PREFIX, w>>
\* the integer token of the progress stream of another feature
INT_TOKEN == <<7>>
Tokens ==
    {TokenOf(w) : w \in Windows} \cup {<<CHAT_PREFIX, "w9">>, <<"diagnostics://", "w1">>, INT_TOKEN}
\* notification.params["value"] of $/progress: each field present or absent
FollowUps == {None, Some([message |-> None]), Some([message |-> Some("M")])}
ProgressValues ==
    [kind : {None, Some("report"), Some("end")},
     suggestedTitle : {None, Some("T")},
     reply : {None, Some("R")},
     followUp : FollowUps]
\* the value {}
EmptyValue == [kind |-> None, suggestedTitle |-> None, reply |-> None, followUp |-> None]

\* the install calls that may run at once (the threads that call an install entry point)
Calls == {"i1", "i2"}
\* the members of the server tarball: the binary at THIS_TARBALL_BIN_PATH and
\* one more file
BIN == "bin"
Members == {BIN, "aux"}
\* a member file under versioned_server_dir(): not there, cut short, or whole
FileStates == {"absent", "partial", "full"}
\* how writing one member ends: whole (no error), or an error with the file
\* cut short or not created
ExtractOutcomes == {"full", "partial", "none"}
\* the storage directory with every member absent, and with the directory of
\* a prior version or without it
FsEmpty == [old |-> FALSE, file |-> [m \in Members |-> "absent"], exec |-> FALSE]
FsOldVersion == [FsEmpty EXCEPT !.old = TRUE]
\* an install call that is not running
Idle == [pc |-> "idle", entry |-> "none", todo |-> {}]

\* the id of a view that is closed: find_view_by_id finds no view for it
CLOSED_VIEW == "v9"
\* wcm.last_active_view_id: the id of an open view, of a closed one, or of none
ViewIds == PanelViews \cup {CLOSED_VIEW, NoView}
\* payload["skillId"] of a conversation/context request
SkillIds == {"current-editor", "project-context"}

REQ_GET_COMPLETIONS == "getCompletions"
REQ_GET_COMPLETIONS_CYCLING == "getCompletionsCycling"

VARIABLES
    has_signed_in,  \* CopilotPlugin._account_status.has_signed_in
    is_authorized,  \* CopilotPlugin._account_status.is_authorized
    user,           \* CopilotPlugin._account_status.user
    checks,         \* checkStatus requests awaiting their reply
    session,        \* self.weaksession() is alive
    sel,            \* view.sel() of each view
    mode,           \* the view condition _guard_view tests
    timer,          \* the pending debounced call of request_get_completions
    vcm,            \* ViewCompletionManager(view): the CompletionSet
    inflight,       \* cycling requests awaiting their response, with the region bound to the callback
    panel,          \* ViewPanelCompletionManager(view): the PanelSession
    panelOpen,      \* the views whose panel id is registered in the reverse index
    arrived,        \* the payloads of the panelSolution notifications addressed to the open session of a view
    conv,           \* WindowConversationManager(window): the ConversationSession
    convBound,      \* the windows whose token is bound (a turn was started and not destroyed)
    ended,          \* the windows whose conversation went from waiting to not waiting by an "end" payload
    fs,             \* the plugin storage directory: the files under plugin_storage_dir()
    inst,           \* each install call: where it stands in install_or_update / install_server
    last_active_view_id, \* WindowConversationManager(window).last_active_view_id
    last            \* the operation handled last, with what it was given and what it sent

accountVars == <<has_signed_in, is_authorized, user, checks>>
completionVars == <<session, sel, mode, timer, vcm, inflight>>
panelVars == <<panel, panelOpen, arrived>>
convVars == <<conv, convBound, ended>>
installVars == <<fs, inst>>
contextVars == <<last_active_view_id>>
vars == <<has_signed_in, is_authorized, user, checks, session, sel, mode, timer, vcm, inflight,
          panel, panelOpen, arrived, conv, convBound, ended, fs, inst, last_active_view_id, last>>

NoOp == [op |-> "init", key |-> "", sent |-> <<>>, arg |-> <<>>]
Op(op, key, sent, arg) == [op |-> op, key |-> key, sent |-> sent, arg |-> arg]

\* ViewCompletionManager.reset(), as __init__ leaves every view
VcmReset == [is_visible |-> FALSE, is_waiting |-> FALSE, completions |-> <<>>, completion_index |-> 0]

\* ViewPanelCompletionManager.reset(), with no completions yet
PanelReset == [is_waiting |-> FALSE, completions |-> <<>>]

\* WindowConversationManager.reset()
ConvReset == [is_waiting |-> FALSE, turns |-> <<>>, suggested_title |-> "", follow_up |-> ""]

Init ==
    /\ has_signed_in = FALSE
    /\ is_authorized = FALSE
    /\ user = None
    /\ checks = 0
    /\ session = TRUE
    /\ sel \in [Views -> {<< <<0, 0>> >>}]
    /\ mode \in [Views -> {"ok"}]
    /\ timer = [v \in Views |-> FALSE]
    /\ vcm = [v \in Views |-> VcmReset]
    /\ inflight = [v \in Views |-> <<>>]
    /\ panel = [v \in PanelViews |-> PanelReset]
    /\ panelOpen = {}
    /\ arrived = [v \in PanelViews |-> <<>>]
    /\ conv = [w \in Windows |-> ConvReset]
    /\ convBound = {}
    /\ ended = {}
    /\ fs = FsOldVersion
    /\ inst = [p \in Calls |-> Idle]
    /\ last_active_view_id = [w \in Windows |-> NoView]
    /\ last = NoOp

(***************************************************************************)
(* Account state.                                                          *)
(***************************************************************************)
\* set_account_status: each argument given is assigned, an omitted one (None) is left
SetAccountStatus(signed_in, authorized, u) ==
    /\ has_signed_in' = IF signed_in # None THEN signed_in[1] ELSE has_signed_in
    /\ is_authorized' = IF authorized # None THEN authorized[1] ELSE is_authorized
    /\ user' = IF u # None THEN u ELSE user

\* _on_check_status with signed_in computed like authorized
OnCheckStatusSignedInOnlyIfOK(status, u) ==
    SetAccountStatus(Some(status = "OK"), Some(status = "OK"), u)

\* _on_check_status(result), the reply callback of on_settings_changed
OnCheckStatus(status, u) ==
    SetAccountStatus(Some(status \in {"NotAuthorized", "OK"}), Some(status = "OK"), u)

\* the gate of _request_completions
Gate == has_signed_in /\ is_authorized

\* on_settings_changed: sends checkStatus when the session is alive
OnSettingsChanged ==
    /\ checks < MaxChecks
    /\ checks' = IF session THEN checks + 1 ELSE checks
    /\ last' = Op("settings", "", IF session THEN <<"checkStatus">> ELSE <<>>, <<>>)
    /\ UNCHANGED <<has_signed_in, is_authorized, user>>
    /\ UNCHANGED completionVars
    /\ UNCHANGED <<panelVars, convVars, installVars, contextVars>>

\* the reply to a checkStatus request arrives
CheckStatusReply(status, u) ==
    /\ checks > 0
    /\ checks' = checks - 1
    /\ OnCheckStatus(status, u)
    /\ last' = Op("checkStatusReply", "", <<>>, <<status>>)
    /\ UNCHANGED completionVars
    /\ UNCHANGED <<panelVars, convVars, installVars, contextVars>>

\* the checkStatus request fails: the callback is never called
CheckStatusError ==
    /\ checks > 0
    /\ checks' = checks - 1
    /\ last' = Op("checkStatusError", "", <<>>, <<>>)
    /\ UNCHANGED <<has_signed_in, is_authorized, user>>
    /\ UNCHANGED completionVars
    /\ UNCHANGED <<panelVars, convVars, installVars, contextVars>>

\* set_account_status called by a command (sign in, sign out, check status)
CallSetAccountStatus(signed_in, authorized, u) ==
    /\ SetAccountStatus(signed_in, authorized, u)
    /\ last' = Op("setAccountStatus", "", <<>>, <<>>)
    /\ UNCHANGED checks
    /\ UNCHANGED completionVars
    /\ UNCHANGED <<panelVars, convVars, installVars, contextVars>>

(***************************************************************************)
(* Completion session of a view.                                           *)
(***************************************************************************)
\* the condition under which _guard_view returns failed_return
ViewRejected(v) ==
    \/ mode[v] = "invalid"
    \/ mode[v] = "element"
    \/ mode[v] = "read_only"
    \/ mode[v] = "command_mode"
    \/ mode[v] = "is_widget"

\* debounce(): a call cancels the pending timer of the view and starts a new one
Debounced(tm, v) == [tm EXCEPT ![v] = TRUE]

\* request_get_completions as its callers see it: _guard_view, then debounce.
\* The value is the timers after the call.
RequestGetCompletions(tm, v) == IF ViewRejected(v) THEN tm ELSE Debounced(tm, v)

\* ViewCompletionManager.hide()
Hide(c) == [c EXCEPT !.is_visible = FALSE]

\* ViewCompletionManager.show(completions, 0, style)
Show(c, completions) ==
    [c EXCEPT !.completions = completions, !.completion_index = 0, !.is_visible = TRUE]

\* _request_completions without the is_authorized test
RequestCompletionsNoAuthCheck(st, v, request, no_callback, docOk) ==
    LET hidden == [st EXCEPT !.vcm[v] = Hide(@)] IN
    IF ~(session /\ has_signed_in /\ Len(sel[v]) = 1) THEN hidden
    ELSE IF ~docOk THEN hidden
    ELSE IF no_callback THEN [hidden EXCEPT !.sent = Append(@, request)]
    ELSE [hidden EXCEPT !.vcm[v].is_waiting = TRUE,
                        !.inflight[v] = Append(@, [region |-> sel[v][1]]),
                        !.sent = Append(@, request)]

\* _request_completions(view, request, no_callback): st holds the view managers,
\* the requests awaiting a response and the requests sent so far by this call
\* chain; docOk is whether prepare_completion_request_doc(view) gives a document
RequestCompletions(st, v, request, no_callback, docOk) ==
    LET hidden == [st EXCEPT !.vcm[v] = Hide(@)] IN
    IF ~(session /\ has_signed_in /\ is_authorized /\ Len(sel[v]) = 1) THEN hidden
    ELSE IF ~docOk THEN hidden
    ELSE IF no_callback THEN [hidden EXCEPT !.sent = Append(@, request)]
    ELSE [hidden EXCEPT !.vcm[v].is_waiting = TRUE,
                        !.inflight[v] = Append(@, [region |-> sel[v][1]]),
                        !.sent = Append(@, request)]

\* the body of request_get_completions with the cycling request issued twice
RequestBothCyclingTwice(v, docOk) ==
    RequestCompletions(
        RequestCompletions(
            RequestCompletions([vcm |-> vcm, inflight |-> inflight, sent |-> <<>>],
                               v, REQ_GET_COMPLETIONS, TRUE, docOk),
            v, REQ_GET_COMPLETIONS_CYCLING, FALSE, docOk),
        v, REQ_GET_COMPLETIONS_CYCLING, FALSE, docOk)

\* the body of request_get_completions: the primary request, then the cycling one
RequestBoth(v, docOk) ==
    RequestCompletions(
        RequestCompletions([vcm |-> vcm, inflight |-> inflight, sent |-> <<>>],
                           v, REQ_GET_COMPLETIONS, TRUE, docOk),
        v, REQ_GET_COMPLETIONS_CYCLING, FALSE, docOk)

\* _on_get_completions without the comparison of the region
OnGetCompletionsNoStaleCheck(v, payload, region) ==
    LET waited == [vcm EXCEPT ![v].is_waiting = FALSE] IN
    IF ~session THEN [vcm |-> waited, timer |-> timer]
    ELSE IF Len(sel[v]) # 1 THEN [vcm |-> waited, timer |-> timer]
    ELSE IF payload = <<>> THEN [vcm |-> waited, timer |-> timer]
    ELSE [vcm |-> [waited EXCEPT ![v] = Show(@, payload)], timer |-> timer]

\* _on_get_completions re-requesting whatever the region is
OnGetCompletionsAlwaysRetries(v, payload, region) ==
    LET waited == [vcm EXCEPT ![v].is_waiting = FALSE] IN
    IF ~session THEN [vcm |-> waited, timer |-> timer]
    ELSE IF Len(sel[v]) # 1 THEN [vcm |-> waited, timer |-> timer]
    ELSE [vcm |-> waited, timer |-> RequestGetCompletions(timer, v)]

\* _on_get_completions(view, payload, region): the view managers and the timers after it
OnGetCompletions(v, payload, region) ==
    LET waited == [vcm EXCEPT ![v].is_waiting = FALSE] IN
    IF ~session THEN [vcm |-> waited, timer |-> timer]
    ELSE IF Len(sel[v]) # 1 THEN [vcm |-> waited, timer |-> timer]
    ELSE IF sel[v][1] # region
        THEN [vcm |-> waited, timer |-> RequestGetCompletions(timer, v)]
    ELSE IF payload = <<>> THEN [vcm |-> waited, timer |-> timer]
    ELSE [vcm |-> [waited EXCEPT ![v] = Show(@, payload)], timer |-> timer]

\* the requests still awaiting a response once the i-th has got its own
RemoveAt(s, i) == [j \in 1..(Len(s) - 1) |-> IF j < i THEN s[j] ELSE s[j + 1]]

\* the editor calls request_get_completions(view) (a text change, a command)
Trigger(v) ==
    /\ timer' = RequestGetCompletions(timer, v)
    /\ last' = Op("trigger", v, <<>>, <<timer[v]>>)
    /\ UNCHANGED <<session, sel, mode, vcm, inflight>>
    /\ UNCHANGED accountVars
    /\ UNCHANGED <<panelVars, convVars, installVars, contextVars>>

\* the debounce timer of the view runs out: the body of request_get_completions runs
DebounceFire(v, docOk) ==
    /\ timer[v]
    /\ Len(inflight[v]) < MaxInflight
    /\ LET st == RequestBoth(v, docOk) IN
        /\ vcm' = st.vcm
        /\ inflight' = st.inflight
        /\ last' = Op("fire", v, st.sent, <<>>)
    /\ timer' = [timer EXCEPT ![v] = FALSE]
    /\ UNCHANGED <<session, sel, mode>>
    /\ UNCHANGED accountVars
    /\ UNCHANGED <<panelVars, convVars, installVars, contextVars>>

\* the response to the i-th cycling request awaiting one arrives
DeliverResponse(v, i, payload) ==
    /\ i \in 1..Len(inflight[v])
    /\ LET st == OnGetCompletions(v, payload, inflight[v][i].region) IN
        /\ vcm' = st.vcm
        /\ timer' = st.timer
    /\ inflight' = [inflight EXCEPT ![v] = RemoveAt(@, i)]
    /\ last' = Op("response", v, <<>>, <<inflight[v][i].region, payload, i>>)
    /\ UNCHANGED <<session, sel, mode>>
    /\ UNCHANGED accountVars
    /\ UNCHANGED <<panelVars, convVars, installVars, contextVars>>

\* the cycling request fails: its callback is never called
RequestError(v, i) ==
    /\ i \in 1..Len(inflight[v])
    /\ inflight' = [inflight EXCEPT ![v] = RemoveAt(@, i)]
    /\ last' = Op("requestError", v, <<>>, <<>>)
    /\ UNCHANGED <<session, sel, mode, timer, vcm>>
    /\ UNCHANGED accountVars
    /\ UNCHANGED <<panelVars, convVars, installVars, contextVars>>

\* the user moves the cursor or changes the selection
SetSelection(v, s) ==
    /\ s # sel[v]
    /\ sel' = [sel EXCEPT ![v] = s]
    /\ last' = Op("select", v, <<>>, <<>>)
    /\ UNCHANGED <<session, mode, timer, vcm, inflight>>
    /\ UNCHANGED accountVars
    /\ UNCHANGED <<panelVars, convVars, installVars, contextVars>>

\* the view becomes read-only, enters command mode, is closed, ...
SetMode(v, m) ==
    /\ m # mode[v]
    /\ mode' = [mode EXCEPT ![v] = m]
    /\ last' = Op("mode", v, <<>>, <<>>)
    /\ UNCHANGED <<session, sel, timer, vcm, inflight>>
    /\ UNCHANGED accountVars
    /\ UNCHANGED <<panelVars, convVars, installVars, contextVars>>

\* the LSP session ends: weaksession() returns None from now on
SessionEnd ==
    /\ session
    /\ session' = FALSE
    /\ last' = Op("sessionEnd", "", <<>>, <<>>)
    /\ UNCHANGED <<sel, mode, timer, vcm, inflight>>
    /\ UNCHANGED accountVars
    /\ UNCHANGED <<panelVars, convVars, installVars, contextVars>>

(***************************************************************************)
(* Panel completion session of a view.                                     *)
(***************************************************************************)
\* ViewPanelCompletionManager.find_view_by_panel_id: the reverse index
FindViewByPanelId(pid) ==
    IF \E v \in panelOpen : PanelIdOf(v) = pid
    THEN CHOOSE v \in panelOpen : PanelIdOf(v) = pid
    ELSE NoView

\* ViewPanelCompletionManager.append_completion
AppendCompletion(p, item) == [p EXCEPT !.completions = Append(@, item)]

\* _handle_panel_solution_notification dropping what arrives once is_waiting is false
HandlePanelSolutionDropsAfterDone(pid, item) ==
    LET view == FindViewByPanelId(pid) IN
    IF view = NoView THEN panel
    ELSE IF ~panel[view].is_waiting THEN panel
    ELSE [panel EXCEPT ![view] = AppendCompletion(@, item)]

\* _handle_panel_solution_notification putting the newest item first
HandlePanelSolutionPrepends(pid, item) ==
    LET view == FindViewByPanelId(pid) IN
    IF view = NoView THEN panel
    ELSE [panel EXCEPT ![view].completions = <<item>> \o @]

\* _handle_panel_solution_notification(payload): the panel sessions after it
HandlePanelSolution(pid, item) ==
    LET view == FindViewByPanelId(pid) IN
    IF view = NoView THEN panel
    ELSE [panel EXCEPT ![view] = AppendCompletion(@, item)]

\* _handle_panel_solution_done_notification flipping is_waiting
HandlePanelSolutionDoneToggles(pid) ==
    LET view == FindViewByPanelId(pid) IN
    IF view = NoView THEN panel
    ELSE [panel EXCEPT ![view].is_waiting = ~@]

\* _handle_panel_solution_done_notification(payload): the panel sessions after it
HandlePanelSolutionDone(pid) ==
    LET view == FindViewByPanelId(pid) IN
    IF view = NoView THEN panel
    ELSE [panel EXCEPT ![view].is_waiting = FALSE]

\* open(view): the getPanelCompletions request is issued, the session starts
\* waiting with no items and its panel id is registered
PanelOpen(v) ==
    /\ panelOpen' = panelOpen \cup {v}
    /\ panel' = [panel EXCEPT ![v] = [is_waiting |-> TRUE, completions |-> <<>>]]
    /\ arrived' = [arrived EXCEPT ![v] = <<>>]
    /\ last' = Op("panelOpen", PanelIdOf(v), <<"getPanelCompletions">>, <<>>)
    /\ UNCHANGED <<accountVars, completionVars, convVars, installVars, contextVars>>

\* close(panelId): the session and its reverse-index entry are removed
PanelClose(v) ==
    /\ v \in panelOpen
    /\ panelOpen' = panelOpen \ {v}
    /\ panel' = [panel EXCEPT ![v] = PanelReset]
    /\ arrived' = [arrived EXCEPT ![v] = <<>>]
    /\ last' = Op("panelClose", PanelIdOf(v), <<>>, <<>>)
    /\ UNCHANGED <<accountVars, completionVars, convVars, installVars, contextVars>>

\* a panelSolution notification arrives
NotifyPanelSolution(pid, item) ==
    /\ LET view == FindViewByPanelId(pid) IN
        /\ view # NoView => Len(arrived[view]) < MaxItems
        /\ arrived' = IF view = NoView THEN arrived
                      ELSE [arrived EXCEPT ![view] = Append(@, item)]
    /\ panel' = HandlePanelSolution(pid, item)
    /\ last' = Op("panelSolution", pid, <<>>, <<item>>)
    /\ UNCHANGED panelOpen
    /\ UNCHANGED <<accountVars, completionVars, convVars, installVars, contextVars>>

\* a panelSolutionDone notification arrives
NotifyPanelSolutionDone(pid) ==
    /\ panel' = HandlePanelSolutionDone(pid)
    /\ last' = Op("panelSolutionDone", pid, <<>>,
                  <<last.op = "panelSolutionDone" /\ last.key = pid>>)
    /\ UNCHANGED <<panelOpen, arrived>>
    /\ UNCHANGED <<accountVars, completionVars, convVars, installVars, contextVars>>

(***************************************************************************)
(* Conversation session of a window.                                       *)
(***************************************************************************)
\* the token is a string
IsStr(token) == Len(token) = 2

\* token.startswith(prefix) is true
StartsWith(token, prefix) == IsStr(token) /\ token[1] = prefix

\* on_server_notification_async raises: token.startswith is looked up on a
\* token that is no string (AttributeError), and nothing after it runs
OnServerNotificationRaises(token) == ~IsStr(token)

\* WindowConversationManager.find_window_by_token_id: the token index
FindWindowByTokenId(token) ==
    IF \E w \in convBound : TokenOf(w) = token
    THEN CHOOSE w \in convBound : TokenOf(w) = token
    ELSE NoWindow

\* WindowConversationManager.append_conversation_entry(params): a reply turn
AppendConversationEntry(c, value) == [c EXCEPT !.turns = Append(@, value.reply[1])]

\* followup.get("message", "")
FollowUpMessage(followup) == IF followup.message # None THEN followup.message[1] ELSE ""

\* the four effects of a $/progress payload on the session of its window
ApplyProgress(c, value) ==
    LET c1 == IF value.kind = Some("end") THEN [c EXCEPT !.is_waiting = FALSE] ELSE c
        c2 == IF value.suggestedTitle # None
              THEN [c1 EXCEPT !.suggested_title = value.suggestedTitle[1]] ELSE c1
        c3 == IF value.reply # None THEN AppendConversationEntry(c2, value) ELSE c2
        c4 == IF value.followUp # None
              THEN [c3 EXCEPT !.follow_up = FollowUpMessage(value.followUp[1])] ELSE c3
    IN c4

\* on_server_notification_async applying the payload to every window
OnServerNotificationNoTokenLookup(token, value) ==
    IF StartsWith(token, CHAT_PREFIX) /\ value # EmptyValue
    THEN [w \in Windows |-> ApplyProgress(conv[w], value)]
    ELSE conv

\* on_server_notification_async for a $/progress notification: the conversation
\* sessions after it
OnServerNotification(token, value) ==
    IF /\ StartsWith(token, CHAT_PREFIX)
       /\ value # EmptyValue
       /\ FindWindowByTokenId(token) # NoWindow
    THEN [conv EXCEPT ![FindWindowByTokenId(token)] = ApplyProgress(@, value)]
    ELSE conv

\* startTurn: the session of the window is created if there is none, its token
\* is bound, and it waits for the reply
StartTurn(w) ==
    /\ ~conv[w].is_waiting
    /\ convBound' = convBound \cup {w}
    /\ conv' = [conv EXCEPT ![w] = [(IF w \in convBound THEN @ ELSE ConvReset)
                                        EXCEPT !.is_waiting = TRUE]]
    /\ ended' = ended \ {w}
    /\ last' = Op("startTurn", w, <<"conversation/turn">>, <<>>)
    /\ UNCHANGED <<accountVars, completionVars, panelVars, installVars, contextVars>>

\* destroyTurn: the session and its token binding are removed
DestroyTurn(w) ==
    /\ w \in convBound
    /\ convBound' = convBound \ {w}
    /\ conv' = [conv EXCEPT ![w] = ConvReset]
    /\ ended' = ended \ {w}
    /\ last' = Op("destroyTurn", w, <<>>, <<>>)
    /\ UNCHANGED <<accountVars, completionVars, panelVars, installVars, contextVars>>

\* a $/progress notification arrives
NotifyProgress(token, value) ==
    /\ LET window == FindWindowByTokenId(token) IN
        /\ (window # NoWindow /\ value.reply # None) => Len(conv[window].turns) < MaxTurns
        /\ ended' = IF /\ window # NoWindow
                       /\ StartsWith(token, CHAT_PREFIX)
                       /\ value.kind = Some("end")
                       /\ conv[window].is_waiting
                    THEN ended \cup {window} ELSE ended
    /\ conv' = OnServerNotification(token, value)
    /\ last' = Op("progress", "", <<>>, <<token, OnServerNotificationRaises(token), value>>)
    /\ UNCHANGED convBound
    /\ UNCHANGED <<accountVars, completionVars, panelVars, installVars, contextVars>>

(***************************************************************************)
(* Installation of the language server: CopilotPlugin.install_or_update    *)
(* and VersionManager.install_server. rmtree_ex, simple_urlopen and        *)
(* decompress_buffer are in plugin/utils.py: the directory is removed      *)
(* whole, the download returns the tarball or raises, and the tarball is   *)
(* unpacked member by member straight into dst_dir, an error ending the    *)
(* unpacking where it stands.                                              *)
(***************************************************************************)
\* needs_update_or_installation with the test left out
NeedsUpdateAlways == TRUE

\* CopilotPlugin.needs_update_or_installation: not server_path().is_file()
NeedsUpdateOrInstallation == fs.file[BIN] = "absent"

\* VersionManager.is_installed: server_path.is_file()
IsInstalled == fs.file[BIN] # "absent"

\* rmtree_ex(plugin_storage_dir, ignore_errors=True)
RmtreeEx == FsEmpty

\* decompress_buffer writing member m into versioned_server_dir: a file that
\* is written anew has the mode of a new file
DecompressMember(m, outcome) ==
    IF outcome = "none" THEN fs
    ELSE [fs EXCEPT !.file[m] = outcome,
                    !.exec = IF m = BIN THEN FALSE ELSE @]

\* where an install call stands after member m was written with this outcome
AfterMember(c, m, outcome) ==
    IF outcome # "full" THEN [c EXCEPT !.pc = "failed", !.todo = {}]
    ELSE IF c.todo = {m}
         THEN [c EXCEPT !.pc = IF c.entry = "install_server" THEN "chmod" ELSE "done",
                        !.todo = {}]
         ELSE [c EXCEPT !.todo = @ \ {m}]

\* the host starts the plugin: install_or_update is called when
\* needs_update_or_installation() is true; its first statement is the download,
\* whose error is logged and ends the call
HostInstall(p, ok) ==
    /\ inst[p].pc = "idle"
    /\ inst' = IF ~NeedsUpdateOrInstallation THEN inst
               ELSE [inst EXCEPT ![p] = [pc |-> IF ok THEN "rmtree" ELSE "failed",
                                         entry |-> "install_or_update", todo |-> {}]]
    /\ last' = Op("hostInstall", p,
                  IF NeedsUpdateOrInstallation THEN <<"download">> ELSE <<>>,
                  <<NeedsUpdateOrInstallation>>)
    /\ UNCHANGED fs
    /\ UNCHANGED <<accountVars, completionVars, panelVars, convVars, contextVars>>

\* install_or_update after the download: the storage directory is removed
Rmtree(p) ==
    /\ inst[p].pc = "rmtree"
    /\ fs' = RmtreeEx
    /\ inst' = [inst EXCEPT ![p].pc = "extract", ![p].todo = Members]
    /\ last' = Op("rmtree", p, <<>>, <<>>)
    /\ UNCHANGED <<accountVars, completionVars, panelVars, convVars, contextVars>>

\* VersionManager.install_server is called: its first statement removes the
\* storage directory
CallInstallServer(p) ==
    /\ inst[p].pc = "idle"
    /\ fs' = RmtreeEx
    /\ inst' = [inst EXCEPT ![p] = [pc |-> "download", entry |-> "install_server", todo |-> {}]]
    /\ last' = Op("installServer", p, <<>>, <<IsInstalled>>)
    /\ UNCHANGED <<accountVars, completionVars, panelVars, convVars, contextVars>>

\* install_server: the download, whose error ends the call
Download(p, ok) ==
    /\ inst[p].pc = "download"
    /\ inst' = [inst EXCEPT ![p].pc = IF ok THEN "extract" ELSE "failed",
                            ![p].todo = IF ok THEN Members ELSE {}]
    /\ last' = Op("download", p, <<"download">>, <<>>)
    /\ UNCHANGED fs
    /\ UNCHANGED <<accountVars, completionVars, panelVars, convVars, contextVars>>

\* decompress_buffer: the next member is written
Extract(p, m, outcome) ==
    /\ inst[p].pc = "extract"
    /\ m \in inst[p].todo
    /\ fs' = DecompressMember(m, outcome)
    /\ inst' = [inst EXCEPT ![p] = AfterMember(@, m, outcome)]
    /\ last' = Op("extract", p, <<>>, <<m, outcome>>)
    /\ UNCHANGED <<accountVars, completionVars, panelVars, convVars, contextVars>>

\* install_server: server_path.chmod(0o755), an error when the file is not there
Chmod(p) ==
    /\ inst[p].pc = "chmod"
    /\ fs' = IF fs.file[BIN] = "absent" THEN fs ELSE [fs EXCEPT !.exec = TRUE]
    /\ inst' = [inst EXCEPT ![p].pc = IF fs.file[BIN] = "absent" THEN "failed" ELSE "done"]
    /\ last' = Op("chmod", p, <<>>, <<>>)
    /\ UNCHANGED <<accountVars, completionVars, panelVars, convVars, contextVars>>

\* the call is over and its caller goes on
InstallReturn(p) ==
    /\ inst[p].pc \in {"done", "failed"}
    /\ inst' = [inst EXCEPT ![p] = Idle]
    /\ last' = Op("installReturn", p, <<>>, <<inst[p].pc>>)
    /\ UNCHANGED fs
    /\ UNCHANGED <<accountVars, completionVars, panelVars, convVars, contextVars>>

(***************************************************************************)
(* The conversation/context request of the server.                         *)
(***************************************************************************)
\* find_view_by_id(view_id): the open view with this id, if there is one
FindViewById(view_id) == IF view_id \in PanelViews THEN view_id ELSE NoView

\* prepare_completion_request_doc(view): the document of the view
DocOf(view) == <<"doc", view>>

\* _handle_conversation_context_request(payload, respond): the values respond
\* is called with, in order. window is session.window, docOk tells whether
\* prepare_completion_request_doc gives a document.
HandleConversationContextRequest(skill_id, window, docOk) ==
    IF ~session THEN <<>>
    ELSE IF /\ skill_id = "current-editor"
            /\ window # NoWindow
            /\ FindViewById(last_active_view_id[window]) # NoView
            /\ docOk
         THEN << Some(DocOf(FindViewById(last_active_view_id[window]))) >>
         ELSE << None >>

\* a conversation/context request arrives
ContextRequest(skill_id, window, docOk) ==
    /\ last' = Op("contextRequest", window, <<>>,
                  <<skill_id, docOk, HandleConversationContextRequest(skill_id, window, docOk)>>)
    /\ UNCHANGED <<accountVars, completionVars, panelVars, convVars, installVars, contextVars>>

\* a view of the window is activated (or the active view is closed)
ActivateView(w, view_id) ==
    /\ last_active_view_id' = [last_active_view_id EXCEPT ![w] = view_id]
    /\ last' = Op("activate", w, <<>>, <<>>)
    /\ UNCHANGED <<accountVars, completionVars, panelVars, convVars, installVars>>

(***************************************************************************)
(* Construction of a plugin instance: CopilotPlugin.__init__.              *)
(***************************************************************************)
\* the window a view is in
WindowOf(v) == IF v = "v1" THEN "w1" ELSE "w2"

\* __init__ resetting only the views and the window of the session it is given
PluginInitOwnWindowOnly(window) ==
    [vcm |-> [v \in Views |-> IF WindowOf(v) = window THEN VcmReset ELSE vcm[v]],
     panel |-> [v \in PanelViews |-> IF WindowOf(v) = window THEN PanelReset ELSE panel[v]],
     conv |-> [w \in Windows |-> IF w = window THEN ConvReset ELSE conv[w]]]

\* __init__(session), window being session().window: the managers of every
\* view of all_views() and of every window of all_windows() are reset
PluginInit(window) ==
    [vcm |-> [v \in Views |-> VcmReset],
     panel |-> [v \in PanelViews |-> PanelReset],
     conv |-> [w \in Windows |-> ConvReset]]

\* a session starts in a window and its plugin instance is constructed. The
\* reset of a panel session or a conversation leaves it as its close or its
\* destruction does: not registered for routing. Requests that await their
\* response and pending debounced calls are not touched.
ConstructPlugin(window) ==
    /\ LET st == PluginInit(window) IN
        /\ vcm' = st.vcm
        /\ panel' = st.panel
        /\ conv' = st.conv
    /\ panelOpen' = {}
    /\ arrived' = [v \in PanelViews |-> <<>>]
    /\ convBound' = {}
    /\ ended' = {}
    /\ last' = Op("pluginInit", window, <<>>,
                  <<(\A v \in Views : vcm[v].is_waiting)
                    /\ (\A v \in PanelViews : panel[v].is_waiting)
                    /\ (\A w \in Windows : conv[w].is_waiting)>>)
    /\ UNCHANGED <<session, sel, mode, timer, inflight>>
    /\ UNCHANGED <<accountVars, installVars, contextVars>>

\* the account operations, with the users a reply or a command may name
NextAccount(U) ==
    \/ OnSettingsChanged
    \/ \E s \in Statuses, u \in U : CheckStatusReply(s, u)
    \/ CheckStatusError
    \/ \E si \in OptBool, au \in OptBool, u \in U : CallSetAccountStatus(si, au, u)

\* the completion operations on the views VS
NextCompletion(VS) ==
    \/ \E v \in VS : Trigger(v)
    \/ \E v \in VS, docOk \in BOOLEAN : DebounceFire(v, docOk)
    \/ \E v \in VS, i \in 1..MaxInflight, p \in Payloads : DeliverResponse(v, i, p)
    \/ \E v \in VS, i \in 1..MaxInflight : RequestError(v, i)
    \/ \E v \in VS, s \in Selections : SetSelection(v, s)
    \/ \E v \in VS, m \in ViewModes : SetMode(v, m)
    \/ SessionEnd

\* the completion session of one view and the account status that gates it
Next == NextAccount({None}) \/ NextCompletion({"v1"})

\* the debounced triggers of two views: the account is signed in and out, the
\* views are triggered, their timers fire and the responses arrive
NextDebounce ==
    \/ \E b \in BOOLEAN : CallSetAccountStatus(Some(b), Some(b), None)
    \/ \E v \in Views : Trigger(v)
    \/ \E v \in Views, docOk \in BOOLEAN : DebounceFire(v, docOk)
    \/ \E v \in Views, i \in 1..MaxInflight : DeliverResponse(v, i, <<"a">>)
    \/ \E v \in Views, m \in {"ok", "read_only"} : SetMode(v, m)

SpecDebounce == Init /\ [][NextDebounce]_vars

Spec == Init /\ [][Next]_vars

\* the panel operations, with the items a panelSolution may carry
NextPanel(I) ==
    \/ \E v \in PanelViews : PanelOpen(v)
    \/ \E v \in PanelViews : PanelClose(v)
    \/ \E pid \in PanelIds, item \in I : NotifyPanelSolution(pid, item)
    \/ \E pid \in PanelIds : NotifyPanelSolutionDone(pid)

\* the conversation operations, with the payloads a $/progress may carry
NextConversation(V) ==
    \/ \E w \in Windows : StartTurn(w)
    \/ \E w \in Windows : DestroyTurn(w)
    \/ \E token \in Tokens, value \in V : NotifyProgress(token, value)

\* the panel completion sessions alone
NextPanelOnly == NextPanel(Items)

SpecPanel == Init /\ [][NextPanelOnly]_vars

\* the payloads of the notifications when the conversations run alone: one
\* field at a time, a followUp with and without its message, and several fields
\* at once
TurnValues ==
    {v \in ProgressValues :
        \/ Cardinality({f \in DOMAIN v : v[f] # None}) <= 1
        \/ v = [EmptyValue EXCEPT !.kind = Some("end"), !.reply = Some("R")]
        \/ v = [kind |-> Some("end"), suggestedTitle |-> Some("T"), reply |-> Some("R"),
                 followUp |-> Some([message |-> Some("M")])]}

\* the conversation sessions alone
NextConversationOnly == NextConversation(TurnValues)

SpecConversation == Init /\ [][NextConversationOnly]_vars

\* the payloads of the notifications when both kinds of session run together:
\* nothing, the end signal, a reply, and every field at once
RoutingValues ==
    {EmptyValue,
     [EmptyValue EXCEPT !.kind = Some("end")],
     [EmptyValue EXCEPT !.reply = Some("R")],
     [kind |-> Some("end"), suggestedTitle |-> Some("T"), reply |-> Some("R"),
      followUp |-> Some([message |-> Some("M")])]}

\* every inbound notification: panel solutions and conversation progress
NextNotify == NextPanel({"A"}) \/ NextConversation(RoutingValues)

SpecNotify == Init /\ [][NextNotify]_vars

\* the account status alone
NextAccountOnly == NextAccount(OptUser) \/ SessionEnd

SpecAccount == Init /\ [][NextAccountOnly]_vars

\* the install calls
NextInstall ==
    \/ \E p \in Calls, ok \in BOOLEAN : HostInstall(p, ok)
    \/ \E p \in Calls : Rmtree(p)
    \/ \E p \in Calls : CallInstallServer(p)
    \/ \E p \in Calls, ok \in BOOLEAN : Download(p, ok)
    \/ \E p \in Calls, m \in Members, o \in ExtractOutcomes : Extract(p, m, o)
    \/ \E p \in Calls : Chmod(p)
    \/ \E p \in Calls : InstallReturn(p)

SpecInstall == Init /\ [][NextInstall]_vars

\* the context requests and what they read
NextContext ==
    \/ \E k \in SkillIds, w \in Windows \cup {NoWindow}, docOk \in BOOLEAN : ContextRequest(k, w, docOk)
    \/ \E w \in Windows, id \in ViewIds : ActivateView(w, id)
    \/ SessionEnd

SpecContext == Init /\ [][NextContext]_vars

\* sessions start while completions, panels and conversations are waiting
NextReset ==
    \/ \E w \in Windows : ConstructPlugin(w)
    \/ \E b \in BOOLEAN : CallSetAccountStatus(Some(b), Some(b), None)
    \/ \E v \in Views : Trigger(v)
    \/ \E v \in Views, docOk \in BOOLEAN : DebounceFire(v, docOk)
    \/ \E v \in PanelViews : PanelOpen(v)
    \/ \E w \in Windows : StartTurn(w)

SpecReset == Init /\ [][NextReset]_vars

\* the retry loop of one view: the user triggers and moves the cursor, the
\* pending call fires, the responses arrive
NextRetry ==
    \/ \E b \in BOOLEAN : CallSetAccountStatus(Some(b), Some(b), None)
    \/ Trigger("v1")
    \/ \E s \in Selections : SetSelection("v1", s)
    \/ \E docOk \in BOOLEAN : DebounceFire("v1", docOk)
    \/ \E i \in 1..MaxInflight, p \in {<<>>, <<"a">>} : DeliverResponse("v1", i, p)

\* a pending debounced call runs when its delay is over, and the server
\* answers every request it was sent
RetryFairness ==
    /\ WF_vars(\E docOk \in BOOLEAN : DebounceFire("v1", docOk))
    /\ WF_vars(\E i \in 1..MaxInflight, p \in {<<>>, <<"a">>} : DeliverResponse("v1", i, p))

SpecRetry == Init /\ [][NextRetry]_vars /\ RetryFairness

(***************************************************************************)
(* Properties.                                                             *)
(***************************************************************************)
\* a step that delivers to view v the response of a request whose recorded
\* region is not the live selection of v
StaleResponseStep(v) ==
    /\ last'.op = "response"
    /\ last'.key = v
    /\ sel[v] # <<last'.arg[1]>>

\* a step in which the debounce timer of v fires and the cycling request is sent
CyclingSentStep(v) ==
    /\ last'.op = "fire"
    /\ last'.key = v
    /\ last'.sent # <<>>

\* request_get_completions, called again by _on_get_completions, starts the timer
RetriggerStarts(v) == session /\ Len(sel[v]) = 1 /\ ~ViewRejected(v)

\* C1, as claimed: whenever a response arrives whose recorded region differs
\* from the live selection, its completions are not shown and a fresh request
\* is on its way (the debounced call of request_get_completions is pending).
C1_StaleAlwaysRetriggers ==
    [][\A v \in Views : StaleResponseStep(v) =>
            /\ vcm'[v].completions = vcm[v].completions
            /\ vcm'[v].is_visible = vcm[v].is_visible
            /\ timer'[v]]_vars

\* C1, amended: a response whose recorded region differs from the live
\* selection never changes the completions shown; request_get_completions is
\* called again exactly when the session is alive and the live selection is a
\* single region, and starts the debounce timer when the view passes the view
\* guard (otherwise the timers are left as they were); and a cycling request
\* sent when a timer fires records the region selected at that moment.
C1_StaleDiscarded ==
    [][\A v \in Views :
            /\ StaleResponseStep(v) =>
                /\ vcm'[v].completions = vcm[v].completions
                /\ vcm'[v].is_visible = vcm[v].is_visible
                /\ RetriggerStarts(v) => timer'[v]
                /\ ~RetriggerStarts(v) => timer' = timer
            /\ CyclingSentStep(v) =>
                /\ Len(sel[v]) = 1
                /\ inflight'[v] = Append(inflight[v], [region |-> sel[v][1]])]_vars

\* C1 witness: a response with completions arrived for a superseded region, was
\* not shown, and the debounced request for the current selection is pending.
C1_Witness ==
    \E v \in Views :
        /\ last.op = "response"
        /\ last.key = v
        /\ last.arg[2] # <<>>
        /\ Len(sel[v]) = 1
        /\ sel[v] # <<last.arg[1]>>
        /\ ~vcm[v].is_visible
        /\ timer[v]

\* the operation sent a getCompletions or getCompletionsCycling request
SentCompletionRequest(o) ==
    \E k \in 1..Len(o.sent) : o.sent[k] \in {REQ_GET_COMPLETIONS, REQ_GET_COMPLETIONS_CYCLING}

\* C2: a getCompletions or getCompletionsCycling request is sent only in a
\* step that starts (and ends) with has_signed_in and is_authorized both true;
\* so once a status reply has cleared a flag none is sent until both are set again.
C2_SentOnlyWhenAuthorized ==
    [][SentCompletionRequest(last') =>
            /\ has_signed_in /\ is_authorized
            /\ has_signed_in' /\ is_authorized']_vars

\* C2 witness: a fired trigger has sent the primary and the cycling request.
C2_Witness ==
    /\ last.op = "fire"
    /\ last.sent = <<REQ_GET_COMPLETIONS, REQ_GET_COMPLETIONS_CYCLING>>
    /\ Gate

\* C3, as claimed: while the gate fails, a trigger on a view consumes no
\* debounce slot (the timers are as they were), and the triggered call sends
\* nothing and leaves the CompletionSet and what is displayed unchanged.
C3_GateFailureIsNoOp ==
    [][\A v \in Views :
            /\ (last'.op = "trigger" /\ last'.key = v /\ ~Gate) =>
                /\ timer' = timer
                /\ vcm' = vcm
                /\ inflight' = inflight
            /\ (last'.op = "fire" /\ last'.key = v /\ ~Gate) =>
                /\ last'.sent = <<>>
                /\ vcm' = vcm
                /\ inflight' = inflight]_vars

\* C4, as claimed: is_authorized implies has_signed_in in every reachable state.
C4_AuthorizedImpliesSignedIn == is_authorized => has_signed_in

\* C5: after a checkStatus reply with status s, has_signed_in is
\* (s is NotAuthorized or OK) and is_authorized is (s is OK), whatever they
\* were before; a failed checkStatus leaves the account status as it was.
C5_StatusReplySetsFlags ==
    [][/\ last'.op = "checkStatusReply" =>
            /\ has_signed_in' = (last'.arg[1] \in {"NotAuthorized", "OK"})
            /\ is_authorized' = (last'.arg[1] = "OK")
       /\ last'.op = "checkStatusError" =>
            /\ has_signed_in' = has_signed_in
            /\ is_authorized' = is_authorized
            /\ user' = user]_vars

\* C5 witness: a NotAuthorized reply was processed: signed in, not authorized.
C5_Witness ==
    /\ last.op = "checkStatusReply"
    /\ last.arg[1] = "NotAuthorized"
    /\ has_signed_in
    /\ ~is_authorized

\* C6: the items of every open panel session are exactly the payloads of the
\* panelSolution notifications that carried its panelId since it was opened, in
\* arrival order, whatever was delivered to other panels in between.
C6_ItemsAreArrivals ==
    \A v \in panelOpen : panel[v].completions = arrived[v]

\* C6 witness: one panel holds the same payload twice, received while another
\* panel received a payload of its own.
C6_Witness ==
    \E v \in panelOpen, w \in panelOpen :
        /\ v # w
        /\ panel[v].completions = <<"A", "A">>
        /\ panel[w].completions = <<"B">>

\* a step that handles a panelSolution or panelSolutionDone whose panelId maps
\* to no session, or a $/progress whose token is bound to no window
RoutingMissStep ==
    \/ /\ last'.op \in {"panelSolution", "panelSolutionDone"}
       /\ FindViewByPanelId(last'.key) = NoView
    \/ /\ last'.op = "progress"
       /\ FindWindowByTokenId(last'.arg[1]) = NoWindow

\* C7: a notification that is routed to no session leaves every panel session
\* and every conversation session, and both routing indexes, as they were.
C7_RoutingMissChangesNothing ==
    [][RoutingMissStep =>
            /\ panel' = panel
            /\ panelOpen' = panelOpen
            /\ conv' = conv
            /\ convBound' = convBound]_vars

\* C7 witness: a $/progress with the chat prefix and a token bound to no window
\* was handled while a conversation with a reply turn and a panel with an item exist.
C7_Witness ==
    /\ last.op = "progress"
    /\ StartsWith(last.arg[1], CHAT_PREFIX)
    /\ FindWindowByTokenId(last.arg[1]) = NoWindow
    /\ \E w \in convBound : conv[w].turns # <<>> /\ conv[w].is_waiting
    /\ \E v \in panelOpen : panel[v].completions # <<>>

\* C8, as claimed: once the conversation of a window has stopped waiting
\* because of an "end" payload, no later $/progress for its token appends a turn
\* (until a new turn is started or the conversation is destroyed).
C8_NoTurnAfterEnd ==
    [][\A w \in Windows :
            (w \in ended /\ w \in ended') => conv'[w].turns = conv[w].turns]_vars

\* C9: a panelSolution for an open session that no longer waits (its
\* panelSolutionDone was handled) is appended to the items like any other and
\* leaves is_waiting false; panelSolutionDone itself leaves the items alone.
C9_SolutionAfterDoneAppends ==
    [][\A v \in PanelViews :
            /\ (/\ last'.op = "panelSolution"
                /\ FindViewByPanelId(last'.key) = v
                /\ ~panel[v].is_waiting) =>
                    /\ panel'[v].completions = Append(panel[v].completions, last'.arg[1])
                    /\ ~panel'[v].is_waiting
            /\ (/\ last'.op = "panelSolutionDone"
                /\ FindViewByPanelId(last'.key) = v) =>
                    /\ panel'[v].completions = panel[v].completions
                    /\ ~panel'[v].is_waiting]_vars

\* C9 witness: an open session that is not waiting has just been given a
\* solution and holds it after the ones it received before the done signal.
C9_Witness ==
    \E v \in panelOpen :
        /\ last.op = "panelSolution"
        /\ last.key = PanelIdOf(v)
        /\ ~panel[v].is_waiting
        /\ Len(panel[v].completions) = 2
        /\ panel[v].completions[2] = last.arg[1]

\* C10: handling panelSolutionDone for a panelId right after it was handled for
\* the same panelId changes no panel session: the session is as one
\* panelSolutionDone left it, not waiting and with the same items.
C10_DoneTwiceIsDoneOnce ==
    [][(last'.op = "panelSolutionDone" /\ last'.arg[1]) =>
            /\ panel' = panel
            /\ panelOpen' = panelOpen
            /\ \A v \in PanelViews :
                    FindViewByPanelId(last'.key) = v => ~panel'[v].is_waiting]_vars

\* C10 witness: panelSolutionDone was handled twice in a row for an open
\* session that holds items.
C10_Witness ==
    \E v \in panelOpen :
        /\ last.op = "panelSolutionDone"
        /\ last.key = PanelIdOf(v)
        /\ last.arg[1]
        /\ panel[v].completions # <<>>
        /\ ~panel[v].is_waiting


\* an install call that has removed the storage directory and has not yet
\* written the last member of the tarball
InDeleteExtract(p) ==
    \/ inst[p].pc = "extract"
    \/ inst[p].entry = "install_server" /\ inst[p].pc = "download"

C12_FailedInstallLeavesNoBinary ==
    \A p \in Calls :
        (inst[p].pc = "failed" /\ \A q \in Calls \ {p} : inst[q].pc = "idle")
            => NeedsUpdateOrInstallation

\* C13: while one install call is between its removal of the storage directory
\* and the end of its unpacking, no other call removes the directory or writes
\* a member; and when both calls are done the binary is at the final path.
C13_SingleFlight ==
    /\ [][\A p \in Calls :
            (InDeleteExtract(p) /\ last'.op \in {"rmtree", "installServer", "extract"})
                => last'.key = p]_vars
    /\ []((\A p \in Calls : inst[p].pc = "done") => fs.file[BIN] = "full")

\* C14: when an install call is done (and no other call is running) the whole
\* binary is at the final path, it is executable, and no directory of a prior
\* version is left.
C14_InstalledAndExecutable ==
    \A p \in Calls :
        (inst[p].pc = "done" /\ \A q \in Calls \ {p} : inst[q].pc = "idle")
            => (fs.file[BIN] = "full" /\ fs.exec /\ ~fs.old)


\* C15: every conversation/context request is answered by exactly one call of
\* respond: with the document when skillId is "current-editor" and the last
\* active view of the window resolves to a document, with null otherwise (the
\* case of no live session included).
C15_AnsweredExactlyOnce ==
    last.op = "contextRequest" =>
        last.arg[3] =
            IF /\ last.arg[1] = "current-editor"
               /\ last.key # NoWindow
               /\ FindViewById(last_active_view_id[last.key]) # NoView
               /\ last.arg[2]
            THEN << Some(DocOf(FindViewById(last_active_view_id[last.key]))) >>
            ELSE << None >>


\* C16: a $/progress notification whose token does not carry the conversation
\* prefix (a string with another prefix, or an integer) changes no conversation
\* session, and the handler ends without raising.
C16_ForeignTokenIgnored ==
    [][(last'.op = "progress" /\ ~StartsWith(last'.arg[1], CHAT_PREFIX))
        => (conv' = conv /\ convBound' = convBound /\ ~last'.arg[2])]_vars


\* C19: in the handling of a $/progress payload each session field is changed
\* only by its own payload field (is_waiting by kind = "end", suggested_title
\* by suggestedTitle, the turns by reply, follow_up by followUp.message), an
\* absent field leaves its session field as it was, and every field the payload
\* of a bound token carries is applied.
C19_FieldsIndependent ==
    [][last'.op = "progress" =>
        LET token == last'.arg[1]
            value == last'.arg[3]
            hasMessage == value.followUp # None /\ value.followUp[1].message # None
        IN  /\ \A w \in Windows :
                /\ conv'[w].is_waiting # conv[w].is_waiting => value.kind = Some("end")
                /\ conv'[w].suggested_title # conv[w].suggested_title => value.suggestedTitle # None
                /\ conv'[w].turns # conv[w].turns => value.reply # None
                /\ conv'[w].follow_up # conv[w].follow_up => hasMessage
            /\ (StartsWith(token, CHAT_PREFIX) /\ FindWindowByTokenId(token) # NoWindow) =>
                LET w == FindWindowByTokenId(token) IN
                /\ value.kind = Some("end") => ~conv'[w].is_waiting
                /\ value.suggestedTitle # None => conv'[w].suggested_title = value.suggestedTitle[1]
                /\ value.reply # None => conv'[w].turns = Append(conv[w].turns, value.reply[1])
                /\ hasMessage => conv'[w].follow_up = value.followUp[1].message[1]]_vars


\* C18: a trigger on a view that is not eligible, or on a view with more than
\* one selection, is a no-op: the call and, for a view with several
\* selections, the debounced body that runs for it send no request and leave
\* the CompletionSet and what is displayed unchanged.
C18_RejectedTriggerIsNoOp ==
    [][\A v \in Views :
            /\ (last'.op = "trigger" /\ last'.key = v /\ (ViewRejected(v) \/ Len(sel[v]) > 1)) =>
                /\ last'.sent = <<>>
                /\ vcm' = vcm
                /\ inflight' = inflight
            /\ (/\ last.op = "trigger" /\ last.key = v /\ Len(sel[v]) > 1
                /\ last'.op = "fire" /\ last'.key = v) =>
                /\ last'.sent = <<>>
                /\ vcm' = vcm
                /\ inflight' = inflight]_vars

\* C20: once a response that is not stale has been processed, the view shows
\* no completions if the response carried none, and shows exactly the items of
\* the response, the first one selected, if it carried some.
C20_ResponseDecidesDisplay ==
    [][\A v \in Views :
            (last'.op = "response" /\ last'.key = v /\ session /\ sel[v] = <<last'.arg[1]>>) =>
                IF last'.arg[2] = <<>>
                THEN ~vcm'[v].is_visible
                ELSE /\ vcm'[v].is_visible
                     /\ vcm'[v].completions = last'.arg[2]
                     /\ vcm'[v].completion_index = 0]_vars


\* C17: the debounce keeps one pending call per view. A trigger sends nothing
\* itself: it leaves the view one pending call, however many were made, and
\* leaves the pending calls of the other views alone. When the pending call of
\* a view fires it is used up, and it issues the primary request followed by the
\* cycling request, one of each, or no request at all.
C17_DebounceCollapses ==
    [][\A v \in Views :
            /\ (last'.op = "trigger" /\ last'.key = v) =>
                /\ last'.sent = <<>>
                /\ inflight' = inflight
                /\ timer'[v] = (timer[v] \/ ~ViewRejected(v))
                /\ \A w \in Views \ {v} : timer'[w] = timer[w]
            /\ (last'.op = "fire" /\ last'.key = v) =>
                /\ timer[v] /\ ~timer'[v]
                /\ \A w \in Views \ {v} : timer'[w] = timer[w] /\ inflight'[w] = inflight[w]
                /\ \/ last'.sent = <<>> /\ inflight' = inflight
                   \/ /\ last'.sent = <<REQ_GET_COMPLETIONS, REQ_GET_COMPLETIONS_CYCLING>>
                      /\ Len(inflight'[v]) = Len(inflight[v]) + 1]_vars

\* C17 witness: a trigger of v1 has replaced the pending call of v1 while the
\* call of v2 is pending and requests of both views await their responses.
C17_Witness ==
    /\ last.op = "trigger"
    /\ last.key = "v1"
    /\ last.arg = <<TRUE>>
    /\ timer["v1"] /\ timer["v2"]
    /\ inflight["v1"] # <<>> /\ inflight["v2"] # <<>>


\* C22: for each view, is_waiting is true exactly while a cycling request of
\* the view has been sent and not yet answered: true while any is outstanding
\* (several overlapping ones included), false once all have been answered.
C22_WaitingTracksInflight ==
    \A v \in Views : vcm[v].is_waiting = (inflight[v] # <<>>)


\* C23: a response to an older request never replaces the display produced by
\* a newer one. When the response to a request of a view has been shown while
\* an older request of the view was still outstanding, and the response to
\* that older request is delivered next, with the selection still the region
\* both requests recorded, the completions displayed stay those of the newer
\* request.
C23_OlderResponseNeverReplaces ==
    [][\A v \in Views :
            (/\ last.op = "response" /\ last.key = v
             /\ last'.op = "response" /\ last'.key = v
             /\ last'.arg[3] < last.arg[3]
             /\ session
             /\ sel[v] = <<last.arg[1]>> /\ sel[v] = <<last'.arg[1]>>
             /\ last.arg[2] # <<>>)
            => /\ vcm'[v].is_visible
               /\ vcm'[v].completions = last.arg[2]]_vars


\* C24: the construction of a plugin instance resets the completion state and
\* the panel completion state of every view and the conversation state of every
\* window, whichever window the new session belongs to; right after it no view
\* and no window is waiting.
C24_InitResetsEverything ==
    [][last'.op = "pluginInit" =>
            /\ \A v \in Views : vcm'[v] = VcmReset /\ ~vcm'[v].is_waiting
            /\ \A v \in PanelViews : panel'[v] = PanelReset /\ ~panel'[v].is_waiting
            /\ \A w \in Windows : conv'[w] = ConvReset /\ ~conv'[w].is_waiting]_vars

\* C24 witness: a plugin instance was constructed for the session of w1 while
\* the completions and the panels of both views and the conversations of both
\* windows were waiting.
C24_Witness ==
    /\ last.op = "pluginInit"
    /\ last.key = "w1"
    /\ last.arg = <<TRUE>>
    /\ \A v \in Views : ~vcm[v].is_waiting


\* a step of the user: a trigger from outside, or a change of the selection
ExternalStep == last'.op \in {"trigger", "select"}

\* no request awaits its response and no debounced call is pending
Quiet == \A v \in Views : inflight[v] = <<>> /\ ~timer[v]

\* C21: the retry loop ends once the selection is stable. If from some point on
\* the user neither triggers nor changes the selection, then from some point on
\* no request is in flight and none is pending, for ever; and a response starts
\* a retry only if its recorded region differs from the live selection.
C21_RetryLoopTerminates ==
    /\ [][\A v \in Views :
            (last'.op = "response" /\ last'.key = v /\ timer'[v] /\ ~timer[v])
                => StaleResponseStep(v)]_vars
    /\ (<>[][~ExternalStep]_vars) => <>[]Quiet


\* C21 witness: the response to the last outstanding request of v1 found the
\* selection moved to another single region, and the re-request is pending.
C21_Witness ==
    /\ last.op = "response"
    /\ last.key = "v1"
    /\ last.arg[2] = <<>>
    /\ Len(sel["v1"]) = 1
    /\ sel["v1"] # <<last.arg[1]>>
    /\ inflight["v1"] = <<>>
    /\ timer["v1"]

=============================================================================
